---- MODULE Spec2Model ----
(***************************************************************************)
(* Model of pyextinction: the extinction laws (Cardelli, Fitzpatrick99,    *)
(* Gordon03_SMCBar), the MixtureLaw combinator and its R(V) algebra.       *)
(*                                                                         *)
(* Numbers.  A Python float is modelled by an exact rational <<n, d>>,     *)
(* d > 0, in lowest terms (round-off is abstracted away).  A pair with     *)
(* d = 0 is not a number: <<0,0>> is None, <<1,0>> is a raised             *)
(* ZeroDivisionError, <<2,0>> a raised TypeError (arithmetic on None).     *)
(*                                                                         *)
(* Values of a law.  One element of a returned array is a linear form      *)
(*     sum_i  c_i * t_i * ln(10)^lp_i                                      *)
(* kept as the set of its entries [t, c, lp].  c is an exact rational.  A  *)
(* term t is <<tag, x, Rv, flag>>: tag "q" is the rational number x itself *)
(* (a Cardelli coefficient, computed exactly); the other tags name a real  *)
(* that 32-bit integers cannot hold (a Lorentzian of Fitzpatrick99         *)
(* or Gordon03, a cubic-spline value) by the inputs that determine it.     *)
(* ln(10) is transcendental, so two forms with rational c_i are equal as   *)
(* reals whenever they are equal entry by entry.                           *)
(***************************************************************************)
EXTENDS Integers, Sequences, FiniteSets, TLC

----------------------------------------------------------------------------
(* Exact rationals *)

\* Euclid, as a function of the operand values (an operand is evaluated once)
GCDF[a \in Nat, b \in Nat] ==
    IF b = 0 THEN a ELSE GCDF[b, a % b]

GCD(a, b) ==
    GCDF[a, b]

Abs(n) ==
    IF n < 0 THEN -n ELSE n

\* <<n, d>> with d # 0 brought to lowest terms with a positive denominator
Norm(n, d) ==
    LET g == GCD(Abs(n), Abs(d))
        s == IF d < 0 THEN -1 ELSE 1
    IN  <<s * (n \div g), s * (d \div g)>>

None == <<0, 0>>
ZeroDivisionError == <<1, 0>>
TypeError == <<2, 0>>

IsNone(a) ==
    a = None

IsNum(a) ==
    a[2] # 0

IsErr(a) ==
    a[2] = 0 /\ a[1] # 0

ZeroR == <<0, 1>>
OneR == <<1, 1>>

\* the error an arithmetic operation on a and b raises, if any: an operand
\* that already is a raised error propagates, None as an operand is a TypeError
OperandErr(a, b) ==
    IF IsErr(a) THEN a
    ELSE IF IsErr(b) THEN b
    ELSE IF IsNone(a) \/ IsNone(b) THEN TypeError
    ELSE None

\* as GCDF, functions of the operand values
Num == Int \X Int

RAddF[a \in Num, b \in Num] ==
    IF OperandErr(a, b) # None THEN OperandErr(a, b)
    ELSE LET g == GCD(a[2], b[2])
         IN  Norm(a[1] * (b[2] \div g) + b[1] * (a[2] \div g), (a[2] \div g) * b[2])

RAdd(a, b) ==
    RAddF[a, b]

RNegF[a \in Num] ==
    IF IsNum(a) THEN <<-a[1], a[2]>> ELSE a

RNeg(a) ==
    RNegF[a]

RSub(a, b) ==
    RAdd(a, RNeg(b))

RMulF[a \in Num, b \in Num] ==
    IF OperandErr(a, b) # None THEN OperandErr(a, b)
    ELSE LET g1 == GCD(Abs(a[1]), b[2])
             g2 == GCD(Abs(b[1]), a[2])
         IN  Norm((a[1] \div g1) * (b[1] \div g2), (a[2] \div g2) * (b[2] \div g1))

RMul(a, b) ==
    RMulF[a, b]

\* Python's float division: a zero divisor raises ZeroDivisionError
RDivF[a \in Num, b \in Num] ==
    IF OperandErr(a, b) # None THEN OperandErr(a, b)
    ELSE IF b[1] = 0 THEN ZeroDivisionError
    ELSE RMul(a, Norm(b[2], b[1]))

RDiv(a, b) ==
    RDivF[a, b]

RLe(a, b) ==
    a[1] * b[2] <= b[1] * a[2]

RLt(a, b) ==
    a[1] * b[2] < b[1] * a[2]

R(n, d) ==
    Norm(n, d)

----------------------------------------------------------------------------
(* Linear forms: the values of the laws *)

\* the member of a singleton.  Only({e(v) : v \in {a}}) is e(a) with a
\* evaluated once and named v, however often e uses it
Only(S) ==
    CHOOSE v \in S : TRUE

Term(tag, x, Rv, flag) ==
    <<tag, x, Rv, flag>>

\* the rational number q, as a term
Q(q) ==
    Term("q", q, ZeroR, FALSE)

\* a NaN or an infinity of numpy
NonFinite == {[t |-> Term("nonfinite", ZeroR, ZeroR, FALSE), c |-> OneR, lp |-> 0]}

FZero == {}

\* the form 1 * t; the rational term 0 is the empty form
FTerm(t) ==
    IF t[1] = "q" /\ t[2] = ZeroR THEN FZero ELSE {[t |-> t, c |-> OneR, lp |-> 0]}

Keys(F) ==
    {<<e.t, e.lp>> : e \in F}

Coef(F, k) ==
    IF \E e \in F : <<e.t, e.lp>> = k
    THEN (CHOOSE e \in F : <<e.t, e.lp>> = k).c
    ELSE ZeroR

\* c * F (IEEE: anything times a NaN or an infinity is not finite)
FScale(c, F) ==
    Only({IF f = NonFinite THEN NonFinite
          ELSE {[t |-> e.t, c |-> RMul(k, e.c), lp |-> e.lp] :
                  e \in {d \in f : RMul(k, d.c) # ZeroR}} :
          k \in {c}, f \in {F}})

\* F + G
FAdd(F, G) ==
    Only({IF f = NonFinite \/ g = NonFinite THEN NonFinite
          ELSE {[t |-> k[1], c |-> RAdd(Coef(f, k), Coef(g, k)), lp |-> k[2]] :
                  k \in {j \in Keys(f) \cup Keys(g) : RAdd(Coef(f, j), Coef(g, j)) # ZeroR}} :
          f \in {F}, g \in {G}})

\* np.log(10.) * F
FLog10(F) ==
    Only({IF f = NonFinite THEN NonFinite
          ELSE {[t |-> e.t, c |-> e.c, lp |-> e.lp + 1] : e \in f} :
          f \in {F}})

\* the result of a call: a raised exception ("" when none) and the value
Raise(e) ==
    [err |-> e, val |-> <<>>]

Return(v) ==
    [err |-> "", val |-> v]

\* the name of the exception the not-a-number a stands for
ErrName(a) ==
    IF a = ZeroDivisionError THEN "ZeroDivisionError" ELSE "TypeError"

----------------------------------------------------------------------------
(* helpers.py *)

\* the angstroms in one unit of the unit system (ezunits); "" is a bare number
Angstroms(u) ==
    IF u = "nm" THEN R(10, 1) ELSE OneR

\* val_in_unit(varname, value, 'angstrom'): a bare value is taken to be in
\* angstrom (with a warning), a quantity is converted
val_in_unit(value) ==
    Only({IF v.unit = ""
          THEN [mag |-> v.mag, unit |-> "angstrom"]
          ELSE [mag |-> [i \in 1..Len(v.mag) |-> RMul(v.mag[i], Angstroms(v.unit))],
                unit |-> "angstrom"] :
          v \in {value}})

\* the class tree of the package
Bases(cls) ==
    CASE cls \in {"Cardelli", "Fitzpatrick99", "Gordon03_SMCBar", "Calzetti", "MixtureLaw"}
           -> "ExtinctionLaw"
      [] OTHER -> "object"

\* issubclass(cls, (cl,))
issubclass(cls, cl) ==
    cls = cl \/ Bases(cls) = cl \/ (Bases(cls) # "object" /\ Bases(Bases(cls)) = cl)

\* isNestedInstance(obj, cl): hasattr(cl, '__subclasses') is False for every
\* class (the attribute is __subclasses__), so tree stays [cl]
isNestedInstance(obj, cl) ==
    issubclass(obj.cls, cl)

----------------------------------------------------------------------------
(* cardelli.py *)

\* wavelengths in angstrom: wavenumbers 0.29, 1, 2.82, 5.9, 9 and 10.01 um^-1
Lambdas ==
    {R(1000000, 29), R(10000, 1), R(500000, 141), R(100000, 59), R(10000, 9),
     R(1000000, 1001)}

\* the wavenumbers of Lambdas
Wavenumbers ==
    {RDiv(R(10000, 1), l) : l \in Lambdas}

D3(n) ==
    R(n, 1000)

D5(n) ==
    R(n, 100000)

\* c[1] + c[2] y + c[3] y^2 + ...
RECURSIVE Poly(_, _)
Poly(c, y) ==
    IF Len(c) = 0 THEN ZeroR ELSE RAdd(c[1], RMul(y, Poly(Tail(c), y)))

RSq(y) ==
    RMul(y, y)

\* x ** 1.61 is irrational except at x = 1, the one wavenumber at which the
\* infrared segment is sampled
Pow161(x) ==
    CHOOSE p \in {OneR} : x = OneR

\* the coefficients a(x), b(x) of Eq 1, by the sequence of masked assignments
CardelliABF[x \in Num] ==
    LET in(lo, hi) == RLe(lo, x) /\ RLe(x, hi)
        \* Infrared (Eq 2a, 2b)
        ir == RLe(D3(300), x) /\ RLt(x, D3(1100))
        a1 == IF ir THEN RMul(D3(574), Pow161(x)) ELSE ZeroR
        b1 == IF ir THEN RMul(D3(-527), Pow161(x)) ELSE ZeroR
        \* Optical & Near IR (Eq 3a, 3b)
        opt == in(D3(1100), D3(3300))
        y == RSub(x, D3(1820))
        a2 == IF opt
              THEN Poly(<<OneR, D5(17699), D5(-50447), D5(-2427), D5(72085),
                          D5(1979), D5(-77530), D5(32999)>>, y)
              ELSE a1
        b2 == IF opt
              THEN Poly(<<ZeroR, D5(141338), D5(228305), D5(107233), D5(-538434),
                          D5(-62251), D5(530260), D5(-209002)>>, y)
              ELSE b1
        \* UV (Eq 4a, 4b)
        uv == in(D3(3300), D3(8000))
        a3 == IF uv
              THEN RSub(RSub(D3(1752), RMul(D3(316), x)),
                        RDiv(D3(104), RAdd(RSq(RSub(x, D3(4670))), D3(341))))
              ELSE a2
        b3 == IF uv
              THEN RAdd(RAdd(D3(-3090), RMul(D3(1825), x)),
                        RDiv(D3(1206), RAdd(RSq(RSub(x, D3(4620))), D3(263))))
              ELSE b2
        fuv == in(D3(5900), D3(8000))
        d == RSub(x, D3(5900))
        Fa == Poly(<<ZeroR, ZeroR, D5(-4473), R(-9779, 1000000)>>, d)
        Fb == Poly(<<ZeroR, ZeroR, D5(21300), D5(12070)>>, d)
        a4 == IF fuv THEN RAdd(a3, Fa) ELSE a3
        b4 == IF fuv THEN RAdd(b3, Fb) ELSE b3
        \* Far UV (Eq 5a, 5b)
        far == in(D3(8000), D3(10000))
        e == RSub(x, D3(8000))
        a5 == IF far THEN Poly(<<D3(-1073), D3(-628), D3(137), D3(-70)>>, e) ELSE a4
        b5 == IF far THEN Poly(<<D3(13670), D3(4257), D3(420), D3(374)>>, e) ELSE b4
        \* Case of -values x out of range [0.3,10.0]
        out == RLt(D3(10000), x) \/ RLt(x, D3(300))
    IN  <<IF out THEN ZeroR ELSE a5, IF out THEN ZeroR ELSE b5>>

CardelliAB(x) ==
    CardelliABF[x]

\* CardelliAB over the sampled wavenumbers, computed once
CardelliTable ==
    [x \in Wavenumbers |-> CardelliAB(x)]

CardelliCoefficients(x) ==
    IF x \in Wavenumbers THEN CardelliTable[x] ELSE CardelliAB(x)

\* Eq 1 with b left out of the division: (a + 1 / Rv) * Av
CardelliEq1NoB(ab, Av, Rv) ==
    IF Rv = ZeroR THEN NonFinite
    ELSE Only({FAdd(FScale(Av, FTerm(Q(c[1]))), FScale(RDiv(Av, Rv), FTerm(Q(OneR)))) :
               c \in {ab}})

\* Eq 1 for one element: (a + b / Rv) * Av; numpy's b / 0.0 is a NaN or an
\* infinity (with a warning), not an exception
CardelliEq1(ab, Av, Rv) ==
    IF Rv = ZeroR THEN NonFinite
    ELSE Only({FAdd(FScale(Av, FTerm(Q(c[1]))), FScale(RDiv(Av, Rv), FTerm(Q(c[2])))) :
               c \in {ab}})

\* 0.4 * F: the factor np.log(10.) left out
TauNoLog(F) ==
    FScale(R(4, 10), F)

\* 0.4 * np.log(10.) * F
Tau(F) ==
    FScale(R(4, 10), FLog10(F))

\* 0.4 * np.log(10.) * k, element by element
TauArray(k) ==
    Only({[i \in 1..Len(a) |-> Tau(a[i])] : a \in {k}})

\* x = 1.e4 / _lamb: the wavenumbers in um^-1, element by element
Wavenumber(lamb) ==
    Only({[i \in 1..Len(_lamb) |-> RDiv(R(10000, 1), _lamb[i])] :
          _lamb \in {val_in_unit(lamb).mag}})

\* Cardelli.function(lamb, Av, Rv, Alambda)
CardelliFunction(lamb, Av, Rv, Alambda) ==
    Only({IF IsNone(Rv) THEN Raise("TypeError")
          ELSE IF Alambda THEN Return(k)
          ELSE Return(TauArray(k)) :
          k \in {Only({[i \in 1..Len(x) |-> CardelliEq1(CardelliCoefficients(x[i]), Av, Rv)] :
                       x \in {Wavenumber(lamb)}})}})

----------------------------------------------------------------------------
(* fitzpatrick.py, gordon.py *)

\* xcutuv = 10000.0 / 2700.
xcutuv == R(10000, 2700)

\* whether some element of x lies in the UV branch (True in ind)
AnyUV(x) ==
    \E i \in 1..Len(x) : RLe(xcutuv, x[i])

\* Fitzpatrick99, one element, as A(lambda)/A(V) for Av = 1.  In the UV branch
\* k = c1 + c2 x + c3 D(x) (+ the FUV term) + Rv depends on x and Rv alone.  In
\* the optical/NIR branch k is the cubic spline through the 7 anchors and the
\* two UV knots yspluv; `yspluv += Rv` runs only inside `if True in ind`, so
\* the knots, and the spline, depend on whether the array holds a UV element.
Fitzpatrick99K(xi, Rv, uvInArray) ==
    IF RLe(xcutuv, xi)
    THEN Term("F99.uv", xi, Rv, FALSE)
    ELSE Term("F99.spline", xi, Rv, uvInArray)

\* Fitzpatrick99.function(lamb, Av, Rv, Alambda); c2 = -0.824 + 4.717 / Rv
\* divides two Python floats
Fitzpatrick99Function(lamb, Av, Rv, Alambda) ==
    IF IsNone(Rv) THEN Raise("TypeError")
    ELSE IF Rv = ZeroR THEN Raise("ZeroDivisionError")
    ELSE Only({IF Alambda THEN Return(k) ELSE Return(TauArray(k)) :
               k \in {Only({[i \in 1..Len(x) |->
                               FScale(Av, FTerm(Fitzpatrick99K(x[i], Rv, AnyUV(x))))] :
                            x \in {Wavenumber(lamb)}})}})

\* Gordon03_SMCBar.__init__(Rv)
Gordon03Init(Rv) ==
    [cls |-> "Gordon03_SMCBar", name |-> "Gordon et al. 2003 SMCBar",
     hasRv |-> TRUE, Rv |-> Rv]

\* the R(V) one call of Gordon03_SMCBar.function uses
Gordon03Rv(self, Rv) ==
    IF IsNone(Rv) THEN self.Rv ELSE Rv

\* a call that writes `self.Rv = Rv` where the code assigns the local Rv
Gordon03SelfStores(self, Rv) ==
    [self EXCEPT !.Rv = IF IsNone(Rv) THEN self.Rv ELSE Rv]

\* what the call leaves in the instance: nothing is assigned to self
Gordon03Self(self, Rv) ==
    self

\* Gordon03_SMCBar, one element: c1..c4 are constants over Rv, the UV knots
\* yspluv are computed once from them, whatever the array holds
Gordon03K(xi, Rv) ==
    IF RLe(xcutuv, xi)
    THEN Term("G03.uv", xi, Rv, FALSE)
    ELSE Term("G03.spline", xi, Rv, FALSE)

\* Gordon03_SMCBar.function(self, lamb, Av, Rv, Alambda)
Gordon03Function(self, lamb, Av, Rv, Alambda) ==
    Only({IF IsNone(rv) THEN Raise("TypeError")
          ELSE IF rv = ZeroR THEN Raise("ZeroDivisionError")
          ELSE Only({IF Alambda THEN Return(k) ELSE Return(TauArray(k)) :
                     k \in {Only({[i \in 1..Len(x) |-> FScale(Av, FTerm(Gordon03K(x[i], rv)))] :
                                  x \in {Wavenumber(lamb)}})}}) :
          rv \in {Gordon03Rv(self, Rv)}})

----------------------------------------------------------------------------
(* calzetti.py *)

\* _lamb *= 1e-4: the wavelengths in micron, element by element
Microns(lamb) ==
    Only({[i \in 1..Len(_lamb) |-> RDiv(_lamb[i], R(10000, 1))] :
          _lamb \in {val_in_unit(lamb).mag}})

\* (_lamb >= 0.630) & (_lamb <= 2.2)
CalzettiRed(l) ==
    RLe(R(630, 1000), l) /\ RLe(l, R(22, 10))

\* (_lamb >= 0.0912) & (_lamb < 0.630)
CalzettiBlue(l) ==
    RLe(R(912, 10000), l) /\ RLt(l, R(630, 1000))

\* one element of what Calzetti.function returns.  k starts as np.zeros and is
\* assigned in the two ranges only: the linear fit + Rv, the cubic fit + Rv
\* (reals named by the range, the wavelength and Rv).  The function returns
\* 0.4 * k, or 10 ** (0.4 * k) when Alambda is False; Av is not used
CalzettiValue(l, Rv, Alambda) ==
    IF CalzettiRed(l) \/ CalzettiBlue(l)
    THEN IF Alambda
         THEN FScale(R(4, 10),
                     FTerm(Term(IF CalzettiRed(l) THEN "C00.red" ELSE "C00.blue", l, Rv, FALSE)))
         ELSE FTerm(Term(IF CalzettiRed(l) THEN "10**C00.red" ELSE "10**C00.blue",
                         l, Rv, FALSE))
    ELSE IF Alambda THEN FZero ELSE FTerm(Q(OneR))

\* Calzetti.function(lamb, Av, Rv, Alambda)
CalzettiFunction(lamb, Av, Rv, Alambda) ==
    IF IsNone(Rv) THEN Raise("TypeError")
    ELSE Only({Return([i \in 1..Len(l) |-> CalzettiValue(l[i], Rv, Alambda)]) :
               l \in {Microns(lamb)}})

CalzettiInit ==
    [cls |-> "Calzetti", name |-> "Calzetti", hasRv |-> FALSE, Rv |-> None]

----------------------------------------------------------------------------
(* extinction.py *)

CardelliInit ==
    [cls |-> "Cardelli", name |-> "Cardelli", hasRv |-> FALSE, Rv |-> None]

Fitzpatrick99Init ==
    [cls |-> "Fitzpatrick99", name |-> "Fitzpatrick99", hasRv |-> FALSE, Rv |-> None]

\* law.function(lamb, Av=Av, Rv=Rv, Alambda=Alambda), by the class of law
LawFunction(law, lamb, Av, Rv, Alambda) ==
    CASE law.cls = "Cardelli" -> CardelliFunction(lamb, Av, Rv, Alambda)
      [] law.cls = "Fitzpatrick99" -> Fitzpatrick99Function(lamb, Av, Rv, Alambda)
      [] law.cls = "Gordon03_SMCBar" -> Gordon03Function(law, lamb, Av, Rv, Alambda)
      [] law.cls = "Calzetti" -> CalzettiFunction(lamb, Av, Rv, Alambda)
      [] OTHER -> Raise("NotImplementedError")

\* getattr(law, 'Rv', None)
GetattrRv(law) ==
    IF law.hasRv THEN law.Rv ELSE None

\* MixtureLaw.get_Rv_A(Rv, f_A, Rv_B)
get_Rv_A(self, Rv, f_A, Rv_B) ==
    LET rvb == IF IsNone(Rv_B) /\ self.B.hasRv THEN self.B.Rv ELSE Rv_B
    IN  RDiv(OneR, RSub(RDiv(OneR, RMul(Rv, f_A)),
                        RDiv(RSub(OneR, f_A), RMul(f_A, rvb))))

\* MixtureLaw.get_Rv(Rv_A, f_A, Rv_B)
get_Rv(self, Rv_A, f_A, Rv_B) ==
    LET rvb == IF IsNone(Rv_B) /\ self.B.hasRv THEN self.B.Rv ELSE Rv_B
        rva == IF IsNone(Rv_A) /\ self.A.hasRv THEN self.A.Rv ELSE Rv_A
    IN  RDiv(OneR, RAdd(RDiv(f_A, rva), RDiv(RSub(OneR, f_A), rvb)))

\* get_Rv_B with f_A for (1. - f_A) in the numerator
get_Rv_B_fA(self, Rv, Rv_A, f_A) ==
    LET rva == IF IsNone(Rv_A) /\ self.A.hasRv THEN self.A.Rv ELSE Rv_A
    IN  RDiv(f_A, RSub(RDiv(OneR, Rv), RDiv(f_A, rva)))

\* MixtureLaw.get_Rv_B(Rv, Rv_A, f_A)
get_Rv_B(self, Rv, Rv_A, f_A) ==
    LET rva == IF IsNone(Rv_A) /\ self.A.hasRv THEN self.A.Rv ELSE Rv_A
    IN  RDiv(RSub(OneR, f_A), RSub(RDiv(OneR, Rv), RDiv(f_A, rva)))


\* a constructor that stores its arguments the other way round
MixtureLawInitSwapped(A, B, name) ==
    IF ~(isNestedInstance(A, "ExtinctionLaw") /\ isNestedInstance(B, "ExtinctionLaw"))
    THEN Raise("ValueError")
    ELSE Return([A |-> B, B |-> A,
                 name |-> IF name # "" THEN name ELSE "(" \o A.name \o ", " \o B.name \o ")"])

\* MixtureLaw.__init__(A, B, name): the instance, or the exception raised
MixtureLawInit(A, B, name) ==
    IF ~(isNestedInstance(A, "ExtinctionLaw") /\ isNestedInstance(B, "ExtinctionLaw"))
    THEN Raise("ValueError")
    ELSE Return([A |-> A, B |-> B,
                 name |-> IF name # "" THEN name ELSE "(" \o A.name \o ", " \o B.name \o ")"])

\* ExtinctionLaw.__add__(self, other)
Add(self, other) ==
    MixtureLawInit(self, other, "")

\* a + b: Python calls type(a).__add__(a, b).  An int or None on the left
\* returns NotImplemented for a law on the right, and ExtinctionLaw defines no
\* __radd__ to fall back on
PlusOperator(a, b) ==
    IF isNestedInstance(a, "ExtinctionLaw") THEN Add(a, b) ELSE Raise("TypeError")

\* a resolution that never looks at the law's stored Rv
DefaultRvNotRead(Rv_X, law) ==
    Rv_X

\* `if Rv_X is None: Rv_X = getattr(law, 'Rv', None)`
DefaultRv(Rv_X, law) ==
    IF IsNone(Rv_X) THEN GetattrRv(law) ELSE Rv_X

\* sum([Rv_A is None, Rv_B is None, Rv is None]) >= 2
TooFewRv(Rv_A, Rv_B, Rv) ==
    Cardinality({i \in 1..3 : IsNone(<<Rv_A, Rv_B, Rv>>[i])}) >= 2

\* the weights exchanged: (1. - f_A) * a + f_A * b
BlendExchanged(f_A, a, b) ==
    Only({[i \in 1..Len(x) |-> FAdd(FScale(RSub(OneR, f_A), x[i]), FScale(f_A, y[i]))] :
          x \in {a}, y \in {b}})

\* f_A * a + (1. - f_A) * b, element by element
Blend(f_A, a, b) ==
    Only({[i \in 1..Len(x) |-> FAdd(FScale(f_A, x[i]), FScale(RSub(OneR, f_A), y[i]))] :
          x \in {a}, y \in {b}})

\* what MixtureLaw.function reports besides its result: the R(V) handed to
\* each component and whether the component was evaluated
MixResult(err, val, Rv_A, Rv_B, calledA, calledB) ==
    [err |-> err, val |-> val, Rv_A |-> Rv_A, Rv_B |-> Rv_B,
     calledA |-> calledA, calledB |-> calledB]

\* MixtureLaw.function(lamb, Av, Rv_A, Alambda, f_A, Rv_B, Rv, **kwargs)
MixtureFunction(self, lamb, Av, Rv_A, Alambda, f_A, Rv_B, Rv) ==
    Only({IF TooFewRv(rva1, rvb1, Rv)
          THEN MixResult("ValueError", <<>>, rva1, rvb1, FALSE, FALSE)
          ELSE Only({IF IsErr(rva2)
                     THEN MixResult(ErrName(rva2), <<>>, rva2, rvb1, FALSE, FALSE)
                     ELSE Only({IF IsErr(rvb2)
                                THEN MixResult(ErrName(rvb2), <<>>, rva2, rvb2, FALSE, FALSE)
                                ELSE Only({IF ra.err # ""
                                           THEN MixResult(ra.err, <<>>, rva2, rvb2, TRUE, FALSE)
                                           ELSE Only({IF rb.err # ""
                                                      THEN MixResult(rb.err, <<>>, rva2, rvb2,
                                                                     TRUE, TRUE)
                                                      ELSE MixResult("", Blend(f_A, ra.val, rb.val),
                                                                     rva2, rvb2, TRUE, TRUE) :
                                                      rb \in {LawFunction(self.B, u_lamb, Av, rvb2,
                                                                          Alambda)}}) :
                                           ra \in {LawFunction(self.A, u_lamb, Av, rva2,
                                                               Alambda)}}) :
                                rvb2 \in {IF IsNone(rvb1) THEN get_Rv_B(self, Rv, rva2, f_A)
                                          ELSE rvb1}}) :
                     rva2 \in {IF IsNone(rva1) THEN get_Rv_A(self, Rv, f_A, rvb1) ELSE rva1}}) :
          u_lamb \in {val_in_unit(lamb)},
          rva1 \in {DefaultRv(Rv_A, self.A)},
          rvb1 \in {DefaultRv(Rv_B, self.B)}})

\* a keyword argument of a call, or the default of the signature
Bind(kwargs, name, default) ==
    IF name \in DOMAIN kwargs THEN kwargs[name] ELSE default

\* ExtinctionLaw.__call__(self, lamb, **kwargs) on a mixture:
\* self.function(lamb, **kwargs); a keyword the signature does not name lands
\* in **kwargs of function and is dropped
MixtureCall(self, lamb, kwargs) ==
    MixtureFunction(self, lamb, Bind(kwargs, "Av", OneR), Bind(kwargs, "Rv_A", None),
                    Bind(kwargs, "Alambda", TRUE), Bind(kwargs, "f_A", R(1, 2)),
                    Bind(kwargs, "Rv_B", None), Bind(kwargs, "Rv", None))

\* lo <= v <= hi
Within(lo, v, hi) ==
    RLe(lo, v) /\ RLe(v, hi)

\* the last line of isvalid: f_A is a fraction, any Rv is limited to [2.0, 6.0]
ValidVector(f_A, Rv_B, Rv_A, Rv) ==
    /\ Within(ZeroR, f_A, OneR)
    /\ Within(R(2, 1), Rv_B, R(6, 1))
    /\ Within(R(2, 1), Rv_A, R(6, 1))
    /\ Within(R(2, 1), Rv, R(6, 1))

\* what isvalid reports besides its result: the three R(V) it judged
ValidResult(err, val, Rv, Rv_A, Rv_B) ==
    [err |-> err, val |-> val, Rv |-> Rv, Rv_A |-> Rv_A, Rv_B |-> Rv_B]

\* MixtureLaw.isvalid(Av, Rv, f_A, Rv_A, Rv_B)
MixtureIsValid(self, Rv, f_A, Rv_A, Rv_B) ==
    Only({IF TooFewRv(rva1, rvb1, Rv) THEN ValidResult("", FALSE, Rv, rva1, rvb1)
          ELSE Only({IF IsErr(rva2) THEN ValidResult(ErrName(rva2), FALSE, Rv, rva2, rvb1)
                     ELSE Only({IF IsErr(rv2)
                                THEN ValidResult(ErrName(rv2), FALSE, rv2, rva2, rvb1)
                                ELSE Only({IF IsErr(rvb2)
                                           THEN ValidResult(ErrName(rvb2), FALSE, rv2, rva2, rvb2)
                                           ELSE ValidResult("", ValidVector(f_A, rvb2, rva2, rv2),
                                                            rv2, rva2, rvb2) :
                                           rvb2 \in {IF IsNone(rvb1)
                                                     THEN get_Rv_B(self, rv2, rva2, f_A)
                                                     ELSE rvb1}}) :
                                rv2 \in {IF IsNone(Rv) THEN get_Rv(self, rva2, f_A, rvb1)
                                         ELSE Rv}}) :
                     rva2 \in {IF IsNone(rva1) THEN get_Rv_A(self, Rv, f_A, rvb1) ELSE rva1}}) :
          rvb1 \in {IF IsNone(Rv_B) /\ self.B.hasRv THEN self.B.Rv ELSE Rv_B},
          rva1 \in {IF IsNone(Rv_A) /\ self.A.hasRv THEN self.A.Rv ELSE Rv_A}})

----------------------------------------------------------------------------
(* The program state and the calls made on it *)

VARIABLES
    heap,        \* the objects: id -> instance
    gsmc0,       \* the Rv the Gordon03_SMCBar instance was constructed with
    overridden,  \* whether the Gordon03_SMCBar instance was ever evaluated with
                 \* an explicit Rv other than the one it stores
    last         \* the call in progress: its operation, arguments and outcome

vars == <<heap, gsmc0, overridden, last>>

\* longest wavelength array of a call
MaxLen == 2

\* the arrays a mixture is evaluated on: 1 and 5.9 um^-1
MixArrays ==
    {<<R(10000, 1)>>, <<R(100000, 59)>>, <<R(10000, 1), R(100000, 59)>>}

Arrays(S) ==
    UNION {[1..n -> S] : n \in 1..MaxLen}

Units == {"", "nm"}

\* the array a of angstrom values, given in unit u
Quantity(a, u) ==
    [mag |-> [i \in 1..Len(a) |-> RDiv(a[i], Angstroms(u))], unit |-> u]

Avs == {OneR, R(2, 1)}

\* R(V) given to a law
Rvs == {ZeroR, R(31, 10), R(137, 50)}

\* R(V) the Gordon03_SMCBar instance is constructed with (2.74: none given)
GordonRvs == {R(137, 50), R(4, 1), ZeroR}

\* an R(V) argument of MixtureLaw.function, None when not given
MixRvs == {None, R(31, 10), R(4, 1)}

\* an R(V) argument of isvalid and of the get_Rv helpers
ValidRvs == {None, ZeroR, R(2, 1), R(31, 10), R(6, 1), R(7, 1)}

\* mixture ratios
Fractions == {ZeroR, R(1, 4), R(1, 2), OneR}

WideFractions == Fractions \cup {R(-1, 2), R(2, 1)}

\* the laws mixtures are evaluated on
MixLaws == {"ccm", "f99", "gsmc"}

Laws == MixLaws \cup {"cal"}

\* wavelengths in angstrom given to Calzetti: 0.09, 0.0912, 2.2 and 3 micron
CalzettiLambdas == {R(900, 1), R(912, 1), R(22000, 1), R(30000, 1)}

\* the wavelengths the law id is evaluated at
LambdasFor(id) ==
    IF id = "cal" THEN CalzettiLambdas ELSE Lambdas

\* the objects a composition is attempted with: the laws, an int and None
Objects == Laws \cup {"three", "none"}

NotALaw(cls) ==
    [cls |-> cls, name |-> "", hasRv |-> FALSE, Rv |-> None]

Idle == [op |-> "idle"]

Init ==
    /\ gsmc0 \in GordonRvs
    /\ heap = [id \in Objects |->
                 CASE id = "ccm" -> CardelliInit
                   [] id = "f99" -> Fitzpatrick99Init
                   [] id = "gsmc" -> Gordon03Init(gsmc0)
                   [] id = "cal" -> CalzettiInit
                   [] id = "three" -> NotALaw("int")
                   [] OTHER -> NotALaw("NoneType")]
    /\ overridden = FALSE
    /\ last = Idle

\* law.function(..., Rv=Rv) is given an Rv that is not the one law stores
Overrides(law, Rv) ==
    law.hasRv /\ ~IsNone(Rv) /\ Rv # law.Rv

\* the instance after law.function(..., Rv=Rv) was evaluated
AfterCall(law, Rv) ==
    IF law.cls = "Gordon03_SMCBar" THEN Gordon03Self(law, Rv) ELSE law

\* MixtureLaw(A=a, B=b, name=name); an argument left out is None
NewMixture(a, b, name) ==
    /\ last = Idle
    /\ last' = [op |-> "MixtureLaw", A |-> a, B |-> b, name |-> name,
                res |-> MixtureLawInit(heap[a], heap[b], name)]
    /\ UNCHANGED <<heap, gsmc0, overridden>>

\* a + b
AddLaws(a, b) ==
    /\ last = Idle
    /\ last' = [op |-> "add", A |-> a, B |-> b, name |-> "",
                res |-> PlusOperator(heap[a], heap[b])]
    /\ UNCHANGED <<heap, gsmc0, overridden>>

\* heap[id].function(lamb, Av=Av, Rv=Rv, Alambda=Alambda); Rv = None only for
\* the law whose signature defaults it to None
CallLaw(id, lamb, Av, Rv, Alambda) ==
    /\ last = Idle
    /\ IsNone(Rv) => id = "gsmc"
    /\ last' = [op |-> "function", law |-> id, lamb |-> lamb, Av |-> Av, Rv |-> Rv,
                Alambda |-> Alambda,
                res |-> LawFunction(heap[id], lamb, Av, Rv, Alambda)]
    /\ heap' = [heap EXCEPT ![id] = AfterCall(heap[id], Rv)]
    /\ overridden' = (overridden \/ Overrides(heap[id], Rv))
    /\ UNCHANGED gsmc0

\* the mixture heap[a] + heap[b]; a MixtureLaw is never modified once built,
\* so a call on it is modelled together with the composition that built it
Mixture(a, b) ==
    Add(heap[a], heap[b]).val

\* the components after a call of the mixture a + b that evaluated them
AfterMixture(a, b, r) ==
    [id \in Objects |->
        LET h1 == IF r.calledA /\ id = a THEN AfterCall(heap[id], r.Rv_A) ELSE heap[id]
        IN  IF r.calledB /\ id = b THEN AfterCall(h1, r.Rv_B) ELSE h1]

OverriddenAfter(a, b, r) ==
    \/ overridden
    \/ r.calledA /\ Overrides(heap[a], r.Rv_A)
    \/ r.calledB /\ Overrides(heap[b], r.Rv_B)

\* (a + b).function(lamb, Av=Av, Rv_A=Rv_A, Alambda=Alambda, f_A=f_A, Rv_B=Rv_B, Rv=Rv)
CallMixture(a, b, lamb, Av, Rv_A, Alambda, f_A, Rv_B, Rv) ==
    \E r \in {MixtureFunction(Mixture(a, b), lamb, Av, Rv_A, Alambda, f_A, Rv_B, Rv)} :
        /\ last = Idle
        /\ last' = [op |-> "mix.function", A |-> a, B |-> b, lamb |-> lamb, Av |-> Av,
                    Rv_A |-> Rv_A, Alambda |-> Alambda, f_A |-> f_A, Rv_B |-> Rv_B,
                    Rv |-> Rv, res |-> r]
        /\ heap' = AfterMixture(a, b, r)
        /\ overridden' = OverriddenAfter(a, b, r)
        /\ UNCHANGED gsmc0

\* (a + b)(lamb, Rv=Rv, <key>=v), as testunit.py (key f_bump) and examples.py
\* (key f_A) call the mixture
CallMixtureKw(a, b, lamb, Rv, key, v) ==
    \E r \in {MixtureCall(Mixture(a, b), lamb,
                          [k \in {"Rv", key} |-> IF k = "Rv" THEN Rv ELSE v])} :
        /\ last = Idle
        /\ last' = [op |-> "mix.call", A |-> a, B |-> b, lamb |-> lamb, Rv |-> Rv,
                    key |-> key, v |-> v, res |-> r]
        /\ heap' = AfterMixture(a, b, r)
        /\ overridden' = OverriddenAfter(a, b, r)
        /\ UNCHANGED gsmc0

\* (a + b).isvalid(Rv=Rv, f_A=f_A, Rv_A=Rv_A, Rv_B=Rv_B)
CallIsValid(a, b, Rv, f_A, Rv_A, Rv_B) ==
    /\ last = Idle
    /\ last' = [op |-> "mix.isvalid", A |-> a, B |-> b, Rv |-> Rv, f_A |-> f_A,
                Rv_A |-> Rv_A, Rv_B |-> Rv_B,
                res |-> MixtureIsValid(Mixture(a, b), Rv, f_A, Rv_A, Rv_B)]
    /\ UNCHANGED <<heap, gsmc0, overridden>>

\* the three helpers of a + b, called on the same f_A, Rv_A, Rv_B: get_Rv,
\* then get_Rv_A and get_Rv_B on the Rv it returned
CallGetRv(a, b, Rv_A, f_A, Rv_B) ==
    \E rv \in {get_Rv(Mixture(a, b), Rv_A, f_A, Rv_B)} :
        /\ last = Idle
        /\ last' = [op |-> "mix.get_Rv", A |-> a, B |-> b, Rv_A |-> Rv_A, f_A |-> f_A,
                    Rv_B |-> Rv_B, Rv |-> rv,
                    back_A |-> get_Rv_A(Mixture(a, b), rv, f_A, Rv_B),
                    back_B |-> get_Rv_B(Mixture(a, b), rv, Rv_A, f_A)]
        /\ UNCHANGED <<heap, gsmc0, overridden>>

\* the call returns or raises: control is back at the caller
Done ==
    /\ last # Idle
    /\ last' = Idle
    /\ UNCHANGED <<heap, gsmc0, overridden>>

\* a call is made when none is in progress
Next ==
    \/ /\ last = Idle
       /\ \E a, b \in Objects, name \in {"", "mixture"} : NewMixture(a, b, name)
    \/ /\ last = Idle
       /\ \E a, b \in Objects : AddLaws(a, b)
    \/ /\ last = Idle
       /\ \E id \in Laws, u \in Units, Av \in Avs,
            Rv \in Rvs \cup {None}, Alambda \in BOOLEAN :
              \E a \in Arrays(LambdasFor(id)) :
                  CallLaw(id, Quantity(a, u), Av, Rv, Alambda)
    \/ /\ last = Idle
       /\ \E a, b \in MixLaws, l \in MixArrays, Av \in Avs, Rv_A, Rv_B, Rv \in MixRvs,
            f_A \in Fractions, Alambda \in BOOLEAN :
              CallMixture(a, b, Quantity(l, ""), Av, Rv_A, Alambda, f_A, Rv_B, Rv)
    \/ /\ last = Idle
       /\ \E a, b \in MixLaws, l \in MixArrays, Rv \in MixRvs, key \in {"f_A", "f_bump"},
            v \in Fractions :
              CallMixtureKw(a, b, Quantity(l, "angstrom"), Rv, key, v)
    \/ /\ last = Idle
       /\ \E a, b \in MixLaws, Rv, Rv_A, Rv_B \in ValidRvs, f_A \in WideFractions :
              CallIsValid(a, b, Rv, f_A, Rv_A, Rv_B)
    \/ /\ last = Idle
       /\ \E a, b \in MixLaws, Rv_A, Rv_B \in ValidRvs \ {None}, f_A \in WideFractions :
              CallGetRv(a, b, Rv_A, f_A, Rv_B)
    \/ Done

Spec == Init /\ [][Next]_vars

----------------------------------------------------------------------------
(* Properties *)

\* 1 when the R(V) argument arg is given or the component id stores one
Resolvable(arg, id) ==
    IF ~IsNone(arg) \/ heap[id].hasRv THEN 1 ELSE 0

\* how many of Rv, Rv_A, Rv_B the call in progress knows, the stored R(V) of
\* the components standing in for a missing Rv_A or Rv_B
KnownRv ==
    (IF IsNone(last.Rv) THEN 0 ELSE 1)
        + Resolvable(last.Rv_A, last.A) + Resolvable(last.Rv_B, last.B)

\* C1: MixtureLaw.function raises ValueError exactly when fewer than two of
\* Rv, Rv_A, Rv_B are known once the stored R(V) of the components have
\* replaced the missing Rv_A and Rv_B, and then evaluates neither component
C1_ValueErrorIffTooFewRv ==
    last.op = "mix.function" =>
        /\ (last.res.err = "ValueError") <=> (KnownRv < 2)
        /\ last.res.err = "ValueError" => ~last.res.calledA /\ ~last.res.calledB

\* C1: a call that gives one R(V), to a mixture whose components store none
C1_Witness ==
    /\ last.op = "mix.function"
    /\ ~IsNone(last.Rv_B) /\ IsNone(last.Rv_A) /\ IsNone(last.Rv)
    /\ ~heap[last.A].hasRv
    /\ last.res.err = "ValueError"

\* the call in progress is function(lamb, f_A=1.0, Rv_A=X)
PureA ==
    /\ last.op = "mix.function"
    /\ last.f_A = OneR /\ ~IsNone(last.Rv_A) /\ IsNone(last.Rv_B) /\ IsNone(last.Rv)

\* the call in progress is function(lamb, f_A=0.0, Rv_B=X)
PureB ==
    /\ last.op = "mix.function"
    /\ last.f_A = ZeroR /\ ~IsNone(last.Rv_B) /\ IsNone(last.Rv_A) /\ IsNone(last.Rv)

\* the call in progress returned what component id returns for Rv = X
SameAs(id, X) ==
    /\ last.res.err = ""
    /\ last.res.val = LawFunction(heap[id], last.lamb, last.Av, X, last.Alambda).val

\* C2 as stated: whatever the components, function(lamb, f_A=1.0, Rv_A=X) returns
\* A.function(lamb, Rv=X), and function(lamb, f_A=0.0, Rv_B=X) returns
\* B.function(lamb, Rv=X), without raising
C2_DegenerateAnyLaws ==
    /\ PureA => SameAs(last.A, last.Rv_A)
    /\ PureB => SameAs(last.B, last.Rv_B)

\* C2 amended: the degenerate mixture returns the pure component when the
\* other component stores an R(V) of its own, other than 0
C2_DegenerateStoredRv ==
    /\ (PureA /\ heap[last.B].hasRv /\ heap[last.B].Rv # ZeroR)
            => SameAs(last.A, last.Rv_A)
    /\ (PureB /\ heap[last.A].hasRv /\ heap[last.A].Rv # ZeroR)
            => SameAs(last.B, last.Rv_B)
    /\ (PureA /\ ~heap[last.B].hasRv) => last.res.err = "ValueError"
    /\ (PureB /\ ~heap[last.A].hasRv) => last.res.err = "ValueError"

\* C2: Cardelli + Gordon03_SMCBar at f_A = 1 returned the non-zero Cardelli curve
C2_Witness ==
    /\ PureA /\ last.A = "ccm" /\ last.B = "gsmc"
    /\ last.res.err = ""
    /\ \E i \in 1..Len(last.res.val) : last.res.val[i] # FZero

\* f_A / Rv_A + (1 - f_A) / Rv_B of the call in progress
InverseSum ==
    RAdd(RDiv(last.f_A, last.Rv_A), RDiv(RSub(OneR, last.f_A), last.Rv_B))

\* the helpers were called on positive Rv_A and Rv_B
PositiveRvs ==
    /\ last.op = "mix.get_Rv"
    /\ RLt(ZeroR, last.Rv_A) /\ RLt(ZeroR, last.Rv_B)

\* C3 as stated: for f_A in [0, 1] and positive Rv_A, Rv_B, get_Rv returns the
\* Rv of the relation, and get_Rv_A and get_Rv_B give Rv_A and Rv_B back from it
C3_InverseOnClosedInterval ==
    (PositiveRvs /\ Within(ZeroR, last.f_A, OneR)) =>
        /\ RDiv(OneR, last.Rv) = InverseSum
        /\ last.back_A = last.Rv_A
        /\ last.back_B = last.Rv_B

\* C3 amended: the three helpers are mutually inverse for 0 < f_A < 1; at
\* f_A = 0 get_Rv_A divides by zero, at f_A = 1 get_Rv_B does, and the other
\* two still agree
C3_InverseOnOpenInterval ==
    (PositiveRvs /\ Within(ZeroR, last.f_A, OneR)) =>
        /\ RDiv(OneR, last.Rv) = InverseSum
        /\ last.back_A = IF last.f_A = ZeroR THEN ZeroDivisionError ELSE last.Rv_A
        /\ last.back_B = IF last.f_A = OneR THEN ZeroDivisionError ELSE last.Rv_B

\* C3: a mixture ratio strictly inside (0, 1), other than 1/2, with Rv_A # Rv_B
C3_Witness ==
    /\ PositiveRvs
    /\ last.f_A = R(1, 4) /\ last.Rv_A = R(2, 1) /\ last.Rv_B = R(6, 1)
    /\ last.back_A = last.Rv_A /\ last.back_B = last.Rv_B

\* C4: isvalid always returns a boolean and never raises; when at least two
\* R(V) are resolvable it returns True exactly when 0 <= f_A <= 1 and the
\* three resolved R(V) lie in [2.0, 6.0] (stated for components whose stored
\* R(V) is not 0)
C4_IsValidReturnsBool ==
    (last.op = "mix.isvalid" /\ gsmc0 # ZeroR) =>
        /\ last.res.err = ""
        /\ last.res.val \in BOOLEAN
        /\ KnownRv >= 2 =>
              (last.res.val <=> /\ Within(ZeroR, last.f_A, OneR)
                                /\ Within(R(2, 1), last.res.Rv, R(6, 1))
                                /\ Within(R(2, 1), last.res.Rv_A, R(6, 1))
                                /\ Within(R(2, 1), last.res.Rv_B, R(6, 1)))

\* the call in progress evaluated Cardelli, Fitzpatrick99, Gordon03_SMCBar or
\* a mixture of them, and returned
Evaluated ==
    /\ last.op \in {"function", "mix.function"}
    /\ last.op = "function" => last.law \in MixLaws
    /\ last.res.err = ""

\* what the call in progress returns when made with the other value of Alambda
OtherAlambda ==
    IF last.op = "function"
    THEN LawFunction(heap[last.law], last.lamb, last.Av, last.Rv, ~last.Alambda).val
    ELSE MixtureFunction(Mixture(last.A, last.B), last.lamb, last.Av, last.Rv_A,
                         ~last.Alambda, last.f_A, last.Rv_B, last.Rv).val

\* C5 as stated: the value for Alambda=True is 0.4 ln(10) times the value for
\* Alambda=False, at every element
C5_AlambdaFromTau ==
    (Evaluated /\ ~last.Alambda) =>
        LET A == OtherAlambda
        IN  \A i \in 1..Len(A) :
                A[i] # NonFinite => A[i] = FScale(R(4, 10), FLog10(last.res.val[i]))

\* C5 amended: the value for Alambda=False is 0.4 ln(10) times the value for
\* Alambda=True, at every element where that value is finite
C5_TauFromAlambda ==
    (Evaluated /\ ~last.Alambda) =>
        LET A == OtherAlambda
        IN  \A i \in 1..Len(A) :
                A[i] # NonFinite => last.res.val[i] = FScale(R(4, 10), FLog10(A[i]))

\* C5: a mixture evaluated with Alambda=False to a value other than 0
C5_Witness ==
    /\ Evaluated /\ ~last.Alambda /\ last.op = "mix.function"
    /\ last.A # last.B
    /\ \E i \in 1..Len(last.res.val) : last.res.val[i] \notin {FZero, NonFinite}

\* the call in progress composes two objects
Composing ==
    last.op \in {"add", "MixtureLaw"}

\* the object id is an instance of a subclass of ExtinctionLaw
IsLaw(id) ==
    id \in Laws

\* the composition returned a mixture of its left and right operand, in order
ComposedInOrder ==
    /\ last.res.err = ""
    /\ last.res.val.A = heap[last.A]
    /\ last.res.val.B = heap[last.B]

\* C6 as stated: a + b and MixtureLaw(A=a, B=b) return the mixture with A the
\* left and B the right operand; with an operand or an argument that is no
\* law they raise TypeError
C6_NonLawTypeError ==
    Composing =>
        IF IsLaw(last.A) /\ IsLaw(last.B) THEN ComposedInOrder
        ELSE last.res.err = "TypeError"

\* C6 amended: a + b and MixtureLaw(A=a, B=b) leave every object as it is and
\* return the mixture with A the left and B the right operand; with an
\* argument, or a right operand, that is no law (None for a missing one) they
\* raise ValueError, with a left operand that is no law a + b raises TypeError,
\* and no mixture is returned
C6_NonLawValueError ==
    [][Composing' =>
          /\ heap' = heap
          /\ IF IsLaw(last'.A) /\ IsLaw(last'.B) THEN ComposedInOrder'
             ELSE IF last'.op = "add" /\ ~IsLaw(last'.A)
                  THEN last'.res = Raise("TypeError")
                  ELSE last'.res = Raise("ValueError")]_vars

\* C6: two different laws composed
C6_Witness ==
    /\ last.op = "add" /\ last.A = "f99" /\ last.B = "gsmc"
    /\ last.res.err = "" /\ last.res.val.A # last.res.val.B

\* the wavenumber of element i of the call in progress, in um^-1
WavenumberAt(i) ==
    RDiv(R(10000, 1), RMul(last.lamb.mag[i], Angstroms(last.lamb.unit)))

\* x < 0.3 or x > 10.0
OutOfRange(x) ==
    RLt(x, R(3, 10)) \/ RLt(R(10, 1), x)

\* C7: Cardelli.function returns 0 at every element whose wavenumber is
\* outside [0.3, 10.0], for every Av, every Rv other than 0 and both values of
\* Alambda, whatever the other elements of the array
C7_CardelliZeroOutOfRange ==
    (last.op = "function" /\ last.law = "ccm" /\ last.Rv # ZeroR) =>
        /\ last.res.err = ""
        /\ \A i \in 1..Len(last.lamb.mag) :
              OutOfRange(WavenumberAt(i)) => last.res.val[i] = FZero

\* C7: an array with an element out of range beside one whose value is not 0
C7_Witness ==
    /\ last.op = "function" /\ last.law = "ccm" /\ last.Rv # ZeroR
    /\ Len(last.lamb.mag) = 2
    /\ OutOfRange(WavenumberAt(1)) /\ ~OutOfRange(WavenumberAt(2))
    /\ last.res.val[1] = FZero /\ last.res.val[2] # FZero

\* C8: the Gordon03_SMCBar instance keeps the R(V) it was constructed with
\* through every call, and a call without Rv returns what a new instance
\* returns for Rv = that R(V)
C8_GordonDefaultKept ==
    /\ heap["gsmc"].Rv = gsmc0
    /\ (last.op = "function" /\ last.law = "gsmc" /\ IsNone(last.Rv)) =>
          last.res = Gordon03Function(Gordon03Init(gsmc0), last.lamb, last.Av, gsmc0,
                                      last.Alambda)

\* C8: a call without Rv, made after a call with another Rv, that returned
C8_Witness ==
    /\ overridden
    /\ last.op = "function" /\ last.law = "gsmc" /\ IsNone(last.Rv)
    /\ last.res.err = ""

\* C9: (Fitzpatrick99() + Gordon03_SMCBar())(lamb, Rv=3.1, f_bump=v) returns
\* v * A(lamb, Rv_A) + (1 - v) * B(lamb, Rv_B)
C9_BumpFractionUsed ==
    (/\ last.op = "mix.call" /\ last.key = "f_bump"
     /\ last.A = "f99" /\ last.B = "gsmc" /\ last.Rv = R(31, 10)
     /\ last.res.err = "") =>
        last.res.val =
            Blend(last.v,
                  LawFunction(heap[last.A], last.lamb, OneR, last.res.Rv_A, TRUE).val,
                  LawFunction(heap[last.B], last.lamb, OneR, last.res.Rv_B, TRUE).val)

\* C10: a call of MixtureLaw.function that is given Rv and returns has passed
\* its components Rv_A and Rv_B with 1 / Rv = f_A / Rv_A + (1 - f_A) / Rv_B
C10_ComponentsFollowRv ==
    (last.op = "mix.function" /\ ~IsNone(last.Rv) /\ last.res.err = "") =>
        RDiv(OneR, last.Rv) =
            RAdd(RDiv(last.f_A, last.res.Rv_A), RDiv(RSub(OneR, last.f_A), last.res.Rv_B))

\* C11: whenever isvalid returns True, the Rv, Rv_A and Rv_B it judged
\* satisfy 1 / Rv = f_A / Rv_A + (1 - f_A) / Rv_B
C11_ValidIsCoherent ==
    (last.op = "mix.isvalid" /\ last.res.err = "" /\ last.res.val = TRUE) =>
        RDiv(OneR, last.res.Rv) =
            RAdd(RDiv(last.f_A, last.res.Rv_A), RDiv(RSub(OneR, last.f_A), last.res.Rv_B))

\* the call in progress of MixtureLaw.function had to derive the R(V) of
\* component A: Rv_A was not given, A stores none, and two of the three R(V)
\* were known (same for B below)
DerivedA ==
    /\ last.op = "mix.function" /\ last.res.err # "ValueError"
    /\ IsNone(last.Rv_A) /\ ~heap[last.A].hasRv

DerivedB ==
    /\ last.op = "mix.function" /\ last.res.err # "ValueError"
    /\ IsNone(last.Rv_B) /\ ~heap[last.B].hasRv

\* C12: MixtureLaw.function passes a derived Rv_A or Rv_B to its component
\* only when it is a positive number, and returns a result only then; a
\* derivation that divides by zero or gives a value <= 0 ends in an error
\* without the component being evaluated with it
C12_DerivedRvPositive ==
    /\ (DerivedA /\ (last.res.calledA \/ last.res.err = "")) =>
          RLt(ZeroR, last.res.Rv_A)
    /\ (DerivedB /\ (last.res.calledB \/ last.res.err = "")) =>
          RLt(ZeroR, last.res.Rv_B)

\* element i of the array of the call in progress, as an array of its own
Alone(i) ==
    [mag |-> <<last.lamb.mag[i]>>, unit |-> last.lamb.unit]

\* C13: every law returns at each element of the array the value it returns
\* for that element evaluated alone with the same Av, Rv and Alambda
C13_ElementsIndependent ==
    (last.op = "function" /\ last.res.err = "") =>
        \A i \in 1..Len(last.lamb.mag) :
            last.res.val[i] =
                LawFunction(heap[last.law], Alone(i), last.Av, last.Rv, last.Alambda).val[1]

\* the wavelength of element i of the call in progress, in micron
MicronAt(i) ==
    RDiv(RMul(last.lamb.mag[i], Angstroms(last.lamb.unit)), R(10000, 1))

\* lambda < 0.0912 micron or lambda > 2.2 micron
OutsideCalzetti(l) ==
    RLt(l, R(912, 10000)) \/ RLt(R(22, 10), l)

\* C14: Calzetti.function returns 0 at every element whose wavelength is
\* below 0.0912 micron or above 2.2 micron, for every Rv and Av and both
\* values of Alambda
C14_CalzettiZeroOutside ==
    (last.op = "function" /\ last.law = "cal") =>
        /\ last.res.err = ""
        /\ \A i \in 1..Len(last.lamb.mag) :
              OutsideCalzetti(MicronAt(i)) => last.res.val[i] = FZero

====
